---- MODULE Spec2Model ----
(***************************************************************************)
(* Interpretation-and-dispatch layer of the Groclake agents:               *)
(*   GitHubAgent.default_handler   (src/github.py)                         *)
(*   PhotoAgent.default_handler    (src/photos.py)                         *)
(*   GitHubAgent.execute_action    (src/github2.py)                        *)
(*                                                                         *)
(* A Python str is a sequence of chunks (TLA+ strings).  A chunk is a word,*)
(* one whitespace character, the three-backtick fence "<ticks>", the word  *)
(* "json", or the lexeme of a whole JSON document.  Concatenation is \o,   *)
(* "" is <<>>.  The markdown fence opening an answer is the two chunks     *)
(* <<"<ticks>", "json">> (7 characters), the closing fence the one chunk   *)
(* <<"<ticks>">> (3 characters).                                           *)
(***************************************************************************)
EXTENDS Integers, Sequences, FiniteSets, TLC

VARIABLES agent, payload, stub, log, executed, threads, frames

vars == <<agent, payload, stub, log, executed, threads, frames>>

(* ------------------------------ bounds --------------------------------- *)

\* calls of default_handler made with one payload object before it is dropped
MaxCalls == 2
\* words of the systematically enumerated query texts
MaxWords == 2
\* requests the server works on at the same time
MaxThreads == 2

(* --------------------------- Python strings ---------------------------- *)

SP == " "
LF == "<LF>"
FF == "<FF>"
TICKS == "<ticks>"
JSONWORD == "json"

\* str.strip() removes every character str.isspace() accepts (form feed too)
PyWhitespace == {SP, LF, FF}
\* json.loads skips only space, tab, CR and LF around the document
JsonWhitespace == {SP, LF}

SetMin(S) == CHOOSE m \in S : \A x \in S : m <= x
SetMax(S) == CHOOSE m \in S : \A x \in S : m >= x

TrimSet(s, W) ==
    LET keep == {i \in 1..Len(s) : s[i] \notin W}
    IN  IF keep = {} THEN <<>> ELSE SubSeq(s, SetMin(keep), SetMax(keep))

Strip(s) == TrimSet(s, PyWhitespace)

LowerChunk(c) ==
    CASE c = "List" -> "list"
      [] c = "Photos" -> "photos"
      [] c = "Cats" -> "cats"
      [] c = "Star" -> "star"
      [] c = "True" -> "true"
      [] c = "Private" -> "private"
      [] c = "Create_Repository" -> "create_repository"
      [] c = "Search" -> "search"
      [] c = "Star_Repository" -> "star_repository"
      [] OTHER -> c

Lower(s) == [i \in 1..Len(s) |-> LowerChunk(s[i])]

StartsWith(s, p) == Len(s) >= Len(p) /\ SubSeq(s, 1, Len(p)) = p
EndsWith(s, p) == Len(s) >= Len(p) /\ SubSeq(s, Len(s) - Len(p) + 1, Len(s)) = p

\* <<c, p>>: the word c properly begins with / ends with the word p
ProperPrefix == {<<"photos", "photo">>, <<"images", "image">>, <<"albums", "album">>}
ProperSuffix == {<<"playlist", "list">>}

ChunkStartsWith(c, p) == c = p \/ <<c, p>> \in ProperPrefix
ChunkEndsWith(c, p) == c = p \/ <<c, p>> \in ProperSuffix
ChunkContains(c, p) == c = p \/ <<c, p>> \in (ProperPrefix \cup ProperSuffix)

\* the characters of pat occur in s starting inside chunk i
MatchAt(pat, s, i) ==
    LET n == Len(pat)
    IN  /\ i + n - 1 <= Len(s)
        /\ IF n = 1
           THEN ChunkContains(s[i], pat[1])
           ELSE /\ ChunkEndsWith(s[i], pat[1])
                /\ \A k \in 2..(n - 1) : s[i + k - 1] = pat[k]
                /\ ChunkStartsWith(s[i + n - 1], pat[n])

\* Python's  pat in s
In(pat, s) == \E i \in 1..Len(s) : MatchAt(pat, s, i)

\* Python's  s.split(pat)[-1]  for a pattern that ends with a whole chunk
SplitLast(s, pat) ==
    LET at == {i \in 1..Len(s) : MatchAt(pat, s, i)}
    IN  IF at = {} THEN s ELSE SubSeq(s, SetMax(at) + Len(pat), Len(s))

(* ---------------------------- Python values ---------------------------- *)

\* a key that the mapping does not hold
Absent == [ty |-> "absent", s |-> <<>>]
None == [ty |-> "null", s |-> <<>>]
Str(s) == [ty |-> "str", s |-> s]
Num(lexeme) == [ty |-> "num", s |-> <<lexeme>>]
Bool(b) == [ty |-> "bool", s |-> IF b THEN <<"True">> ELSE <<"False">>]

\* bool(x), as  not x  uses it
Truthy(a) ==
    CASE a.ty \in {"absent", "null"} -> FALSE
      [] a.ty = "str" -> a.s # <<>>
      [] a.ty = "num" -> a.s # <<"0">>
      [] a.ty = "bool" -> a.s = <<"True">>

\* str(x), as an f-string formats it
PyStr(a) == IF a.ty \in {"absent", "null"} THEN <<"None">> ELSE a.s

\* d.get(k)  and  d.get(k, default)
Get(d, k) == IF d[k].ty = "absent" THEN None ELSE d[k]
GetDefault(d, k, default) == IF d[k].ty = "absent" THEN default ELSE d[k]

Keys == {"operation", "name", "description", "scope", "add_readme",
         "owner", "repo", "tag", "album_name"}

NoKeys == [k \in Keys |-> Absent]

\* a JSON object holding the keys of f
Obj(f) == [kind |-> "object",
           obj |-> [k \in Keys |-> IF k \in DOMAIN f THEN f[k] ELSE Absent]]
NonObj(kind) == [kind |-> kind, obj |-> NoKeys]

(* ------------------------ JSON documents (lexemes) --------------------- *)

GitHubDocs ==
    ("{\"operation\": \"create_repository\", \"name\": \"test\", \"scope\": \"private\", \"add_readme\": true}"
        :> Obj(("operation" :> Str(<<"create_repository">>)) @@ ("name" :> Str(<<"test">>))
               @@ ("scope" :> Str(<<"private">>)) @@ ("add_readme" :> Bool(TRUE))))
 @@ ("{\"operation\": \"create_repository\"}"
        :> Obj(("operation" :> Str(<<"create_repository">>))))
 @@ ("{\"operation\": \"create_repository\", \"name\": \"\"}"
        :> Obj(("operation" :> Str(<<"create_repository">>)) @@ ("name" :> Str(<<>>))))
 @@ ("{\"operation\": \" Create_Repository \", \"name\": \"test\", \"scope\": \" Private\", \"add_readme\": \"True\"}"
        :> Obj(("operation" :> Str(<<SP, "Create_Repository", SP>>)) @@ ("name" :> Str(<<"test">>))
               @@ ("scope" :> Str(<<SP, "Private">>)) @@ ("add_readme" :> Str(<<"True">>))))
 @@ ("{\"operation\": \"create_repository\", \"name\": \"test\", \"add_readme\": \"false\"}"
        :> Obj(("operation" :> Str(<<"create_repository">>)) @@ ("name" :> Str(<<"test">>))
               @@ ("add_readme" :> Str(<<"false">>))))
 @@ ("{\"operation\": \"create_repository\", \"name\": \"test\", \"scope\": 5}"
        :> Obj(("operation" :> Str(<<"create_repository">>)) @@ ("name" :> Str(<<"test">>))
               @@ ("scope" :> Num("5"))))
 @@ ("{\"operation\": \"star_repository\", \"owner\": \"octocat\", \"repo\": \"hello\"}"
        :> Obj(("operation" :> Str(<<"star_repository">>)) @@ ("owner" :> Str(<<"octocat">>))
               @@ ("repo" :> Str(<<"hello">>))))
 @@ ("{\"operation\": \" Star_Repository\", \"owner\": \"octocat\", \"repo\": \"hello\"}"
        :> Obj(("operation" :> Str(<<SP, "Star_Repository">>)) @@ ("owner" :> Str(<<"octocat">>))
               @@ ("repo" :> Str(<<"hello">>))))
 @@ ("{\"operation\": \"star_repository\", \"owner\": \"octocat\"}"
        :> Obj(("operation" :> Str(<<"star_repository">>)) @@ ("owner" :> Str(<<"octocat">>))))
 @@ ("{\"operation\": \"star_repository\", \"owner\": \"\", \"repo\": \"hello\"}"
        :> Obj(("operation" :> Str(<<"star_repository">>)) @@ ("owner" :> Str(<<>>))
               @@ ("repo" :> Str(<<"hello">>))))
 @@ ("{\"operation\": \"unstar_repository\", \"owner\": \"octocat\", \"repo\": \"hello\"}"
        :> Obj(("operation" :> Str(<<"unstar_repository">>)) @@ ("owner" :> Str(<<"octocat">>))
               @@ ("repo" :> Str(<<"hello">>))))
 @@ ("{\"operation\": \"unstar_repository\", \"repo\": null}"
        :> Obj(("operation" :> Str(<<"unstar_repository">>)) @@ ("repo" :> None)))
 @@ ("{\"operation\": \"list_repositories\"}"
        :> Obj(("operation" :> Str(<<"list_repositories">>))))
 @@ ("{\"operation\": \"delete_repository\", \"owner\": \"octocat\", \"repo\": \"hello\"}"
        :> Obj(("operation" :> Str(<<"delete_repository">>)) @@ ("owner" :> Str(<<"octocat">>))
               @@ ("repo" :> Str(<<"hello">>))))
 @@ ("{\"operation\": \"delete_repository\", \"owner\": \"octocat\"}"
        :> Obj(("operation" :> Str(<<"delete_repository">>)) @@ ("owner" :> Str(<<"octocat">>))))
 @@ ("{\"operation\": \"get_repository_details\", \"owner\": \"octocat\", \"repo\": \"hello\"}"
        :> Obj(("operation" :> Str(<<"get_repository_details">>)) @@ ("owner" :> Str(<<"octocat">>))
               @@ ("repo" :> Str(<<"hello">>))))
 @@ ("{\"operation\": \"get_repository_details\", \"repo\": \"hello\"}"
        :> Obj(("operation" :> Str(<<"get_repository_details">>)) @@ ("repo" :> Str(<<"hello">>))))
 @@ ("{\"operation\": \"fork_repository\", \"owner\": \"octocat\", \"repo\": \"hello\"}"
        :> Obj(("operation" :> Str(<<"fork_repository">>)) @@ ("owner" :> Str(<<"octocat">>))
               @@ ("repo" :> Str(<<"hello">>))))
 @@ ("{\"operation\": \"fork_repository\", \"owner\": \"octocat\", \"repo\": \"\"}"
        :> Obj(("operation" :> Str(<<"fork_repository">>)) @@ ("owner" :> Str(<<"octocat">>))
               @@ ("repo" :> Str(<<>>))))
 @@ ("{\"operation\": \"rename_repository\", \"owner\": \"octocat\", \"repo\": \"hello\"}"
        :> Obj(("operation" :> Str(<<"rename_repository">>)) @@ ("owner" :> Str(<<"octocat">>))
               @@ ("repo" :> Str(<<"hello">>))))

\* well-formed JSON that is not an object with a string-valued operation
ShapeDocs ==
    ("{}" :> Obj(<<>>))
 @@ ("{\"owner\": \"octocat\", \"repo\": \"hello\"}"
        :> Obj(("owner" :> Str(<<"octocat">>)) @@ ("repo" :> Str(<<"hello">>))))
 @@ ("{\"operation\": null}" :> Obj(("operation" :> None)))
 @@ ("{\"operation\": \"\"}" :> Obj(("operation" :> Str(<<>>))))
 @@ ("{\"operation\": 5}" :> Obj(("operation" :> Num("5"))))
 @@ ("{\"operation\": true}" :> Obj(("operation" :> Bool(TRUE))))
 @@ ("[\"star_repository\"]" :> NonObj("array"))
 @@ ("5" :> NonObj("number"))
 @@ ("\"list photos\"" :> NonObj("string"))
 @@ ("null" :> NonObj("null"))

PhotoDocs ==
    ("{\"operation\": \"list photos\"}"
        :> Obj(("operation" :> Str(<<"list", SP, "photos">>))))
 @@ ("{\"operation\": \"search photos\", \"tag\": \"cats\"}"
        :> Obj(("operation" :> Str(<<"search", SP, "photos">>)) @@ ("tag" :> Str(<<"cats">>))))
 @@ ("{\"operation\": \"search photos\"}"
        :> Obj(("operation" :> Str(<<"search", SP, "photos">>))))
 @@ ("{\"operation\": \" Search Photos\", \"tag\": \"\"}"
        :> Obj(("operation" :> Str(<<SP, "Search", SP, "Photos">>)) @@ ("tag" :> Str(<<>>))))
 @@ ("{\"operation\": \"create album\", \"album_name\": \"trip\"}"
        :> Obj(("operation" :> Str(<<"create", SP, "album">>)) @@ ("album_name" :> Str(<<"trip">>))))
 @@ ("{\"operation\": \"create album\"}"
        :> Obj(("operation" :> Str(<<"create", SP, "album">>))))
 @@ ("{\"operation\": \"list albums\"}"
        :> Obj(("operation" :> Str(<<"list", SP, "albums">>))))
 @@ ("{\"operation\": \"List Photos \"}"
        :> Obj(("operation" :> Str(<<"List", SP, "Photos", SP>>))))
 @@ ("{\"operation\": \"list_photos\"}"
        :> Obj(("operation" :> Str(<<"list_photos">>))))

JsonDocs == GitHubDocs @@ PhotoDocs @@ ShapeDocs

\* json.loads(text): the parsed value, or json.JSONDecodeError
JsonLoads(text) ==
    LET doc == TrimSet(text, JsonWhitespace)
    IN  IF Len(doc) = 1 /\ doc[1] \in DOMAIN JsonDocs
        THEN [ok |-> TRUE, value |-> JsonDocs[doc[1]]]
        ELSE [ok |-> FALSE, value |-> NonObj("null")]

\* answer[3:] in place of answer[7:]: only the backticks are removed
StripOpeningFence_ThreeChars(answer) ==
    IF StartsWith(answer, <<TICKS, JSONWORD>>) THEN SubSeq(answer, 2, Len(answer)) ELSE answer

\* the markdown fences, each removed once if present
StripOpeningFence(answer) ==
    IF StartsWith(answer, <<TICKS, JSONWORD>>) THEN SubSeq(answer, 3, Len(answer)) ELSE answer
StripClosingFence(answer) ==
    IF EndsWith(answer, <<TICKS>>) THEN SubSeq(answer, 1, Len(answer) - 1) ELSE answer
StripFences(answer) == StripClosingFence(StripOpeningFence(answer))

(* --------------------------- requests, results ------------------------- *)

NonePayload == [kind |-> "none", query_text |-> Absent,
                metadata |-> [kind |-> "absent", tag |-> Absent, album_name |-> Absent]]
MetaAbsent == [kind |-> "absent", tag |-> Absent, album_name |-> Absent]
MetaNull == [kind |-> "null", tag |-> Absent, album_name |-> Absent]
MetaDict(tag, album) == [kind |-> "dict", tag |-> tag, album_name |-> album]
Dict(q, m) == [kind |-> "dict", query_text |-> q, metadata |-> m]

LlmUnset == [kind |-> "unset", text |-> <<>>]
LlmRaises == [kind |-> "raise", text |-> <<>>]
LlmAnswers(text) == [kind |-> "text", text |-> text]

ApiOutcomes == {"ok", "ok_empty", "http_error", "network_error"}

NoEnvelope == [keys |-> {}, response_text |-> <<>>, status |-> 0,
               query_text |-> Absent, items |-> "none"]
NoInstr == [state |-> "none", operation |-> <<>>, params |-> NoKeys]

\* the record of one call of default_handler, before anything has happened
Started(p, llm, api) ==
    [outcome |-> "running", exc |-> "", env |-> NoEnvelope, llmCalls |-> 0,
     handlers |-> <<>>, loaded |-> <<>>, parse |-> "none", value |-> NonObj("null"),
     instr |-> NoInstr, payload_in |-> p, payload |-> p, llm |-> llm, api |-> api]

Returns(r, env) == [r EXCEPT !.outcome = "returned", !.env = env]
Raises(r, exc) == [r EXCEPT !.outcome = "raised", !.exc = exc]

\* {"response_text": ..., "status": ..., "query_text": ...}
Envelope(text, status, q) ==
    [keys |-> {"response_text", "status", "query_text"}, response_text |-> text,
     status |-> status, query_text |-> q, items |-> "none"]

Call(fn, args, api) == [fn |-> fn, args |-> args, http |-> api]

(* ------------------------------ src/github.py -------------------------- *)

\* call_modellake_chat: the stripped "answer" of the completion, or the
\* exception modellake.chat_complete raised
CallModellakeChat(llm) ==
    IF llm.kind = "text"
    THEN [raised |-> FALSE, answer |-> Strip(llm.text)]
    ELSE [raised |-> TRUE, answer |-> <<>>]

\* The operation methods send one HTTP request; requests raises on a network
\* failure, and a non-success status code is only printed.
CreateRepository(name, description, scope, add_readme, api) ==
    [raised |-> api = "network_error", output |-> <<>>,
     call |-> Call("create_repository", <<name, description, Str(scope), add_readme>>, api)]

StarRepository(owner, repo, api) ==
    [raised |-> api = "network_error", output |-> <<>>,
     call |-> Call("star_repository", <<owner, repo>>, api)]

UnstarRepository(owner, repo, api) ==
    [raised |-> api = "network_error", output |-> <<>>,
     call |-> Call("unstar_repository", <<owner, repo>>, api)]

DeleteRepository(owner, repo, api) ==
    [raised |-> api = "network_error", output |-> <<>>,
     call |-> Call("delete_repository", <<owner, repo>>, api)]

ForkRepository(owner, repo, api) ==
    [raised |-> api = "network_error", output |-> <<>>,
     call |-> Call("fork_repository", <<owner, repo>>, api)]

ListRepositories(api) ==
    [raised |-> api = "network_error",
     output |-> CASE api = "ok" -> <<"Your repositories:", LF, "- octocat/hello (Public)", LF>>
                  [] api = "ok_empty" -> <<"No repositories found.">>
                  [] OTHER -> <<"Failed to fetch repositories. Status Code: 404">>,
     call |-> Call("list_repositories", <<>>, api)]

\* a 200 response without the repository's fields: details['full_name'] raises
GetRepositoryDetails(owner, repo, api) ==
    [raised |-> api \in {"network_error", "ok_empty"},
     output |-> IF api = "ok"
                THEN <<"Repository: octocat/hello", LF, "Visibility: Public", LF>>
                ELSE <<"Failed to get details for ">> \o PyStr(owner) \o <<"/">> \o PyStr(repo),
     call |-> Call("get_repository_details", <<owner, repo>>, api)]

DispatchError(msg, calls) ==
    [status |-> 500, response_text |-> <<"Error executing operation: ">> \o msg,
     handlers |-> calls]
DispatchOk(text, calls) == [status |-> 200, response_text |-> text, handlers |-> calls]

\* the body of the try block after a handler call h
AfterCall(h, text) ==
    IF h.raised THEN DispatchError(<<"exception of the handler">>, <<h.call>>)
    ELSE DispatchOk(text, <<h.call>>)

\* if not name
MissingName(name) == ~Truthy(name)
\* the check of repo forgotten
MissingOwnerRepo_OwnerOnly(owner, repo) == ~Truthy(owner)

\* if not owner or not repo
MissingOwnerRepo(owner, repo) == ~Truthy(owner) \/ ~Truthy(repo)

\* add_readme == "true", without lower()
CoerceAddReadme_CaseSensitive(add_readme) ==
    IF add_readme.ty = "str" THEN Bool(add_readme.s = <<"true">>) ELSE add_readme

\* if isinstance(add_readme, str): add_readme = add_readme.lower() == "true"
CoerceAddReadme(add_readme) ==
    IF add_readme.ty = "str" THEN Bool(Lower(add_readme.s) = <<"true">>) ELSE add_readme

\* f"{repo}/{owner}"
OwnerSlashRepo_Swapped(owner, repo) == PyStr(repo) \o <<"/">> \o PyStr(owner)

\* f"{owner}/{repo}"
OwnerSlashRepo(owner, repo) == PyStr(owner) \o <<"/">> \o PyStr(repo)

\* the if/elif chain on the operation name, inside its try/except
GitHubDispatch(operation, ins, api) ==
    LET name == Get(ins, "name")
        owner == Get(ins, "owner")
        repo == Get(ins, "repo")
        scope == GetDefault(ins, "scope", Str(<<"public">>))
    IN  CASE operation = <<"create_repository">> ->
               IF MissingName(name)
               THEN DispatchError(<<"Missing 'name' for repository creation.">>, <<>>)
               ELSE IF scope.ty # "str"
               THEN DispatchError(<<"object has no attribute 'strip'">>, <<>>)
               ELSE AfterCall(CreateRepository(name, GetDefault(ins, "description", Str(<<>>)),
                                               Lower(Strip(scope.s)),
                                               CoerceAddReadme(GetDefault(ins, "add_readme", Bool(FALSE))),
                                               api),
                              <<"Repository '">> \o PyStr(name) \o <<"' created successfully.">>)
          [] operation = <<"star_repository">> ->
               IF MissingOwnerRepo(owner, repo)
               THEN DispatchError(<<"Missing 'owner' or 'repo' for starring.">>, <<>>)
               ELSE AfterCall(StarRepository(owner, repo, api),
                              <<"Starred ">> \o OwnerSlashRepo(owner, repo) \o <<".">>)
          [] operation = <<"unstar_repository">> ->
               IF MissingOwnerRepo(owner, repo)
               THEN DispatchError(<<"Missing 'owner' or 'repo' for unstarring.">>, <<>>)
               ELSE AfterCall(UnstarRepository(owner, repo, api),
                              <<"Unstarred ">> \o OwnerSlashRepo(owner, repo) \o <<".">>)
          [] operation = <<"list_repositories">> ->
               AfterCall(ListRepositories(api), ListRepositories(api).output)
          [] operation = <<"delete_repository">> ->
               IF MissingOwnerRepo(owner, repo)
               THEN DispatchError(<<"Missing 'owner' or 'repo' for deletion.">>, <<>>)
               ELSE AfterCall(DeleteRepository(owner, repo, api),
                              <<"Repository ">> \o OwnerSlashRepo(owner, repo)
                                  \o <<" deleted successfully.">>)
          [] operation = <<"get_repository_details">> ->
               IF MissingOwnerRepo(owner, repo)
               THEN DispatchError(<<"Missing 'owner' or 'repo' for getting details.">>, <<>>)
               ELSE AfterCall(GetRepositoryDetails(owner, repo, api),
                              GetRepositoryDetails(owner, repo, api).output)
          [] operation = <<"fork_repository">> ->
               IF MissingOwnerRepo(owner, repo)
               THEN DispatchError(<<"Missing 'owner' or 'repo' for forking.">>, <<>>)
               ELSE AfterCall(ForkRepository(owner, repo, api),
                              <<"Repository ">> \o OwnerSlashRepo(owner, repo)
                                  \o <<" forked successfully.">>)
          [] OTHER ->
               [status |-> 400,
                response_text |-> <<"Operation '">> \o operation \o <<"' is not supported.">>,
                handlers |-> <<>>]

\* the LLM call attempted a second time before giving up
GitHubLlmFailure_Retry(r, query_text) ==
    Returns([r EXCEPT !.llmCalls = 2],
            Envelope(<<"Error processing command: ", "exception of the LLM client">>, 500, query_text))

\* except Exception around the LLM call: one attempt, then the 500 envelope
GitHubLlmFailure(r, query_text) ==
    Returns([r EXCEPT !.llmCalls = 1],
            Envelope(<<"Error processing command: ", "exception of the LLM client">>, 500, query_text))

\* from the parsed instructions to the returned envelope (lines 117-200)
GitHubInterpret(r, query_text, api) ==
    IF r.value.kind # "object"
    THEN Raises(r, "AttributeError")     \* instructions.get, outside any try
    ELSE
    LET ins == r.value.obj
        operation == Get(ins, "operation")
    IN  IF ~Truthy(operation)
        THEN Returns(r, Envelope(<<"No operation specified in the instructions.">>, 400, query_text))
        ELSE IF operation.ty # "str"
        THEN Raises(r, "AttributeError")  \* operation.strip(), outside any try
        ELSE
        LET op == Lower(Strip(operation.s))
            d == GitHubDispatch(op, ins, api)
        IN  Returns([r EXCEPT !.instr = [state |-> "resolved", operation |-> op, params |-> ins],
                              !.handlers = d.handlers],
                    Envelope(d.response_text, d.status, query_text))

GitHubDefaultHandler(p, llm, api) ==
    LET r0 == Started(p, llm, api)
    IN  IF p.kind # "dict"
        \* payload.get raises inside the try; the except clause then reads
        \* query_text, which was never assigned
        THEN Raises(r0, "UnboundLocalError")
        ELSE
        LET query_text == GetDefault(p, "query_text", Str(<<"No query provided">>))
            chat == CallModellakeChat(llm)
        IN  IF chat.raised THEN GitHubLlmFailure(r0, query_text)
            ELSE
            LET text == StripFences(chat.answer)
                parsed == JsonLoads(text)
                r1 == [r0 EXCEPT !.llmCalls = 1, !.loaded = text,
                                 !.parse = IF parsed.ok THEN "ok" ELSE "error",
                                 !.value = parsed.value]
            IN  IF ~parsed.ok
                THEN Returns(r1, Envelope(<<"Failed to parse instructions: ", "JSONDecodeError">>,
                                          400, query_text))
                ELSE GitHubInterpret(r1, query_text, api)

(* ------------------------------ src/photos.py -------------------------- *)

\* call_groq_chat: the accumulated, stripped completion, or the exception
\* raised (GROQ_API_KEY not set, or the Groq client failing)
CallGroqChat(llm) ==
    IF llm.kind = "text"
    THEN [raised |-> FALSE, answer |-> Strip(llm.text)]
    ELSE [raised |-> TRUE, answer |-> <<>>]

\* The Google Photos functions return the items of a 200 response and None
\* for any other status; authenticate() and requests raise on failure.
ListPhotos(api) ==
    [raised |-> api = "network_error",
     value |-> CASE api = "ok" -> "some" [] api = "ok_empty" -> "empty" [] OTHER -> "none",
     call |-> Call("list_photos", <<>>, api)]

SearchPhotosByTagParameter(tag, api) ==
    [raised |-> api = "network_error",
     value |-> CASE api = "ok" -> "some" [] api = "ok_empty" -> "empty" [] OTHER -> "none",
     call |-> Call("search_photos_by_tag_parameter", <<tag>>, api)]

\* response.json().get("id"): None when the 200 response carries no id
CreateAlbum(album_name, api) ==
    [raised |-> api = "network_error",
     value |-> IF api = "ok" THEN "some" ELSE "none",
     call |-> Call("create_album", <<album_name>>, api)]

ListAlbums(api) ==
    [raised |-> api = "network_error",
     value |-> CASE api = "ok" -> "some" [] api = "ok_empty" -> "empty" [] OTHER -> "none",
     call |-> Call("list_albums", <<>>, api)]

\* the dictionaries default_handler returns: none carries a "status" key
PhotoEnvelope(keys, text, q, items) ==
    [keys |-> keys, response_text |-> text, status |-> 0, query_text |-> q, items |-> items]

\* except Exception as e: {"response_text": f"Error: {str(e)}", "query_text": query_text}
PhotoError(msg, q) ==
    PhotoEnvelope({"response_text", "query_text"}, <<"Error: ", msg>>, q, "none")

\* the keyword rules, on the lowercased query
MatchesListPhotos(lq) ==
    In(<<"list", SP, "photos">>, lq) \/ In(<<"list", SP, "images">>, lq)

MatchesSearchPhotos(lq) ==
    \/ In(<<"search", SP, "photos">>, lq) \/ In(<<"search", SP, "images">>, lq)
    \/ In(<<"seach", SP, "photos">>, lq) \/ In(<<"seach", SP, "images">>, lq)
    \/ /\ (In(<<"search">>, lq) \/ In(<<"seach">>, lq))
       /\ (In(<<"photo">>, lq) \/ In(<<"image">>, lq))

\* the keyword misspelt as "create albums"
MatchesCreateAlbum_Typo(lq) == In(<<"create", SP, "albums">>, lq)

MatchesCreateAlbum(lq) == In(<<"create", SP, "album">>, lq)

MatchesListAlbums(lq) == In(<<"list", SP, "albums">>, lq)

\* the create-album branch moved to the head of the chain
MatcherRule_AlbumFirst(lq) ==
    IF MatchesCreateAlbum(lq) THEN "create album"
    ELSE IF MatchesListPhotos(lq) THEN "list photos"
    ELSE IF MatchesSearchPhotos(lq) THEN "search photos"
    ELSE IF MatchesListAlbums(lq) THEN "list albums"
    ELSE "llm"

\* the branch of the if/elif chain that the query takes
MatcherRule(lq) ==
    IF MatchesListPhotos(lq) THEN "list photos"
    ELSE IF MatchesSearchPhotos(lq) THEN "search photos"
    ELSE IF MatchesCreateAlbum(lq) THEN "create album"
    ELSE IF MatchesListAlbums(lq) THEN "list albums"
    ELSE "llm"

RuleOperation(rule) ==
    CASE rule = "list photos" -> <<"list", SP, "photos">>
      [] rule = "search photos" -> <<"search", SP, "photos">>
      [] rule = "create album" -> <<"create", SP, "album">>
      [] rule = "list albums" -> <<"list", SP, "albums">>

\* phrase = "search images of "
TagPhrase == <<"search", SP, "images", SP, "of", SP>>

\* payload.get("metadata", {})
PayloadMetadata(p) ==
    IF p.metadata.kind = "absent" THEN MetaDict(Absent, Absent) ELSE p.metadata

\* tag = lower_query.split(phrase)[-1].strip()
ExtractTag(lq) == Strip(SplitLast(lq, TagPhrase))

\* metadata["tag"] = tag
RememberTag(metadata, tag) == [metadata EXCEPT !.tag = Str(tag)]

\* the tag taken out of the payload's dict once it was read (metadata.pop)
WriteBack_ConsumesTag(p, metadata) ==
    IF p.metadata.kind = "dict" THEN [p EXCEPT !.metadata = [metadata EXCEPT !.tag = Absent]] ELSE p

\* metadata is the payload's own dict when the payload holds one: what the
\* handler writes into it stays in the payload after the call
WriteBack(p, metadata) ==
    IF p.metadata.kind = "dict" THEN [p EXCEPT !.metadata = metadata] ELSE p

\* the matcher branch taken: the operation, the metadata and the payload after
MatcherResolve(p, lq, rule) ==
    LET metadata == PayloadMetadata(p)
        same == [raised |-> FALSE, operation |-> RuleOperation(rule),
                 metadata |-> metadata, payload |-> WriteBack(p, metadata)]
    IN  IF rule # "search photos" THEN same
        ELSE IF metadata.kind # "dict"
        THEN [same EXCEPT !.raised = TRUE]      \* None.get
        ELSE IF ~Truthy(GetDefault(metadata, "tag", Str(<<>>))) /\ In(TagPhrase, lq)
        THEN [same EXCEPT !.metadata = RememberTag(metadata, ExtractTag(lq)),
                          !.payload = WriteBack(p, RememberTag(metadata, ExtractTag(lq)))]
        ELSE same

\* for key in ["tag", "album_name"]: if key in instructions: metadata[key] = ...
InstructionMetadata(ins) == MetaDict(ins["tag"], ins["album_name"])

MetaParams(metadata) ==
    IF metadata.kind = "dict"
    THEN [NoKeys EXCEPT !["tag"] = metadata.tag, !["album_name"] = metadata.album_name]
    ELSE NoKeys

\* "Process the structured operation": the envelope and the handler calls
PhotoProcess(operation, metadata, query_text, api) ==
    LET out(env, calls) == [env |-> env, handlers |-> calls]
        only(text) == PhotoEnvelope({"response_text"}, text, Absent, "none")
        failed(h) == out(PhotoError("exception of the handler", Str(query_text)), <<h.call>>)
    IN  CASE operation = <<"list", SP, "photos">> ->
               LET h == ListPhotos(api)
               IN  IF h.raised THEN failed(h)
                   ELSE IF h.value = "none"
                   THEN out(only(<<"Failed to fetch photos.">>), <<h.call>>)
                   ELSE out(PhotoEnvelope({"response_text", "photos"}, <<"Recent photos:">>,
                                          Absent, h.value), <<h.call>>)
          [] operation = <<"search", SP, "photos">> ->
               IF metadata.kind # "dict"
               THEN out(PhotoError("object has no attribute 'get'", Str(query_text)), <<>>)
               ELSE
               LET tag == GetDefault(metadata, "tag", Str(<<>>))
                   h == SearchPhotosByTagParameter(tag, api)
               IN  IF ~Truthy(tag)
                   THEN out(only(<<"Please provide a tag for searching.">>), <<>>)
                   ELSE IF h.raised THEN failed(h)
                   ELSE IF h.value # "some"
                   THEN out(only(<<"No photos found with tag '">> \o PyStr(tag) \o <<"'.">>),
                            <<h.call>>)
                   ELSE out(PhotoEnvelope({"response_text", "photos"},
                                          <<"Photos with tag '">> \o PyStr(tag) \o <<"':">>,
                                          Absent, h.value), <<h.call>>)
          [] operation = <<"create", SP, "album">> ->
               IF metadata.kind # "dict"
               THEN out(PhotoError("object has no attribute 'get'", Str(query_text)), <<>>)
               ELSE
               LET album_name == GetDefault(metadata, "album_name", Str(<<"New Album">>))
                   h == CreateAlbum(album_name, api)
               IN  IF h.raised THEN failed(h)
                   ELSE IF h.value = "some"
                   THEN out(PhotoEnvelope({"response_text", "album_id"},
                                          <<"Album '">> \o PyStr(album_name)
                                              \o <<"' created successfully!">>,
                                          Absent, "none"), <<h.call>>)
                   ELSE out(only(<<"Failed to create album.">>), <<h.call>>)
          [] operation = <<"list", SP, "albums">> ->
               LET h == ListAlbums(api)
               IN  IF h.raised THEN failed(h)
                   ELSE IF h.value # "some"
                   THEN out(only(<<"No albums found.">>), <<h.call>>)
                   ELSE out(PhotoEnvelope({"response_text", "albums"}, <<"Your albums:">>,
                                          Absent, h.value), <<h.call>>)
          [] OTHER ->
               out(PhotoEnvelope({"response_text", "query_text"}, <<"Operation not recognized.">>,
                                 Str(query_text), "none"), <<>>)

\* the record of the call once operation and metadata are assigned
PhotoDispatch(r, operation, metadata, query_text, api) ==
    LET d == PhotoProcess(operation, metadata, query_text, api)
    IN  Returns([r EXCEPT !.instr = [state |-> "resolved", operation |-> operation,
                                     params |-> MetaParams(metadata)],
                          !.handlers = d.handlers],
                d.env)

\* except Exception around the LLM call: one attempt, then the error envelope
PhotoLlmFailure(r, query_text) ==
    Returns([r EXCEPT !.llmCalls = 1], PhotoError("exception of the LLM client", Str(query_text)))

\* the else branch: prompt, LLM call, fences, json.loads, operation, metadata
PhotoLlmResolve(r0, query_text, llm, api) ==
    LET chat == CallGroqChat(llm)
    IN  IF chat.raised THEN PhotoLlmFailure(r0, query_text)
        ELSE
        LET text == StripFences(chat.answer)
            parsed == JsonLoads(text)
            r1 == [r0 EXCEPT !.llmCalls = 1, !.loaded = text,
                             !.parse = IF parsed.ok THEN "ok" ELSE "error",
                             !.value = parsed.value]
            operation == GetDefault(parsed.value.obj, "operation", Str(<<>>))
        IN  IF ~parsed.ok
            THEN Returns(r1, PhotoError("JSONDecodeError", Str(query_text)))
            ELSE IF parsed.value.kind # "object" \/ operation.ty # "str"
            \* instructions.get, or .strip() of a value that is no str
            THEN Returns(r1, PhotoError("AttributeError", Str(query_text)))
            ELSE PhotoDispatch(r1, Lower(Strip(operation.s)),
                               InstructionMetadata(parsed.value.obj), query_text, api)

PhotoDefaultHandler(p, llm, api) ==
    LET r0 == Started(p, llm, api)
        q == GetDefault(p, "query_text", Str(<<>>))
    IN  IF p.kind # "dict" \/ q.ty # "str"
        \* payload.get or .strip() raises inside the try; the except clause
        \* then reads query_text, which was never assigned
        THEN Raises(r0, "UnboundLocalError")
        ELSE
        LET query_text == Strip(q.s)
            lower_query == Lower(query_text)
            rule == MatcherRule(lower_query)
            m == MatcherResolve(p, lower_query, rule)
        IN  IF rule = "llm" THEN PhotoLlmResolve(r0, query_text, llm, api)
            ELSE IF m.raised
            THEN Returns(r0, PhotoError("object has no attribute 'get'", Str(query_text)))
            ELSE PhotoDispatch([r0 EXCEPT !.payload = m.payload], m.operation, m.metadata,
                               query_text, api)

(* ------------------------- requests and stubs -------------------------- *)

Vocabulary == {"list", "photos", "albums", "search", "create"}

\* the words of ws, single spaces between them
Joined(ws) == [i \in 1..(2 * Len(ws) - 1) |-> IF i % 2 = 1 THEN ws[(i + 1) \div 2] ELSE SP]

WordTexts == {Joined(ws) : ws \in UNION {[1..n -> Vocabulary] : n \in 1..MaxWords}}

LongTexts ==
    { <<"list", SP, "images">>,
      <<SP, "List", SP, "Photos", SP>>,
      <<"playlist", SP, "photos">>,
      <<"create", SP, "album">>,
      <<"list", SP, "photos", SP, "create", SP, "album">>,
      <<"create", SP, "album", SP, "search", SP, "photos">>,
      <<"search", SP, "list", SP, "albums">>,
      <<"seach", SP, "images">>,
      <<"image", SP, "search">>,
      <<"search", SP, "images", SP, "of", SP, "Cats">>,
      <<"Search", SP, "images", SP, "of", SP, SP, "cats", SP, "and", SP, "dogs", LF>>,
      <<"search", SP, "images", SP, "of">>,
      <<"do", SP, "something", SP, "vague">>,
      <<"Star", SP, "octocat/hello">>,
      <<>> }

QueryTexts == WordTexts \cup LongTexts

Metas == {MetaAbsent, MetaNull, MetaDict(Absent, Absent),
          MetaDict(Str(<<"dogs">>), Str(<<"trip">>))}

GitHubPayloads ==
    {NonePayload, Dict(Absent, MetaAbsent), Dict(None, MetaAbsent),
     Dict(Str(<<"Star", SP, "octocat/hello">>), MetaAbsent),
     Dict(Str(<<"do", SP, "something", SP, "vague">>), MetaAbsent)}

PhotoPayloads ==
    {NonePayload, Dict(None, MetaAbsent), Dict(Num("5"), MetaAbsent), Dict(Absent, MetaAbsent)}
        \cup {Dict(Str(t), m) : t \in QueryTexts, m \in Metas}

Payloads(a) == IF a = "github" THEN GitHubPayloads ELSE PhotoPayloads

\* "<ticks>json" + b + "<ticks>"
Fenced(b) == <<TICKS, JSONWORD>> \o b \o <<TICKS>>

\* answers around the document d that are not the bare document
OddAnswers(d) ==
    { <<TICKS, JSONWORD, LF, d, LF, TICKS>>,
      <<TICKS, JSONWORD, d>>,
      <<d, TICKS>>,
      <<SP, d, LF>>,
      <<FF, d>>,
      <<d, d>>,
      <<TICKS, JSONWORD, "I cannot help", TICKS>>,
      <<"I cannot help">>,
      <<>> }

GitHubAnswers ==
    {<<d>> : d \in DOMAIN GitHubDocs \cup DOMAIN ShapeDocs}
        \cup OddAnswers("{\"operation\": \"star_repository\", \"owner\": \"octocat\", \"repo\": \"hello\"}")

PhotoAnswers ==
    {<<d>> : d \in DOMAIN PhotoDocs \cup {"{}", "{\"operation\": null}", "{\"operation\": 5}",
                                          "[\"star_repository\"]", "\"list photos\""}}
        \cup OddAnswers("{\"operation\": \"search photos\", \"tag\": \"cats\"}")

LlmStubs(a) ==
    {LlmRaises} \cup {LlmAnswers(t) : t \in IF a = "github" THEN GitHubAnswers ELSE PhotoAnswers}

Unset == [llm |-> LlmUnset, api |-> "unset"]

DefaultHandler(a, p, llm, api) ==
    IF a = "github" THEN GitHubDefaultHandler(p, llm, api) ELSE PhotoDefaultHandler(p, llm, api)

\* What the stubbed collaborators answer is drawn when they are first called
\* and replayed afterwards (deterministic stubs); a collaborator the handler
\* does not call answers nothing.
LlmChoices ==
    IF stub.llm.kind # "unset" THEN {stub.llm}
    ELSE IF DefaultHandler(agent, payload, LlmRaises, "ok").llmCalls = 0 THEN {LlmUnset}
    ELSE LlmStubs(agent)

ApiChoices(llm) ==
    IF stub.api # "unset" THEN {stub.api}
    ELSE IF DefaultHandler(agent, payload, llm, "ok").handlers = <<>> THEN {"unset"}
    ELSE ApiOutcomes

(* ------------------------------ src/github2.py ------------------------ *)

Actions == {"GITHUB_STAR_REPO", "GITHUB_CREATE_REPO", "GITHUB_DELETE_REPO",
            "GITHUB_UPDATE_REPO_VISIBILITY"}

\* what self.client.execute does with the action
ClientOutcomes == {"ok", "raises"}

NoExecution == [action |-> "none", params |-> <<>>, raised |-> FALSE, propagated |-> FALSE,
                result |-> [kind |-> "none", status |-> 0, response_text |-> <<>>]]

\* try: result = self.client.execute(...); return result
\* except Exception as e: print(...); return None
ExecuteAction(action, params, outcome) ==
    [action |-> action, params |-> params, raised |-> outcome = "raises", propagated |-> FALSE,
     result |-> IF outcome = "raises"
                THEN [kind |-> "none", status |-> 0, response_text |-> <<>>]
                ELSE [kind |-> "composio", status |-> 0, response_text |-> <<>>]]

StarRepo(owner, repo, outcome) == ExecuteAction("GITHUB_STAR_REPO", <<owner, repo>>, outcome)
CreateRepo(name, private, outcome) == ExecuteAction("GITHUB_CREATE_REPO", <<name, private>>, outcome)
DeleteRepo(owner, repo, outcome) == ExecuteAction("GITHUB_DELETE_REPO", <<owner, repo>>, outcome)
ToggleVisibility(owner, repo, outcome) ==
    ExecuteAction("GITHUB_UPDATE_REPO_VISIBILITY", <<owner, repo>>, outcome)

\* the calls the script makes or holds ready in its comments
ScriptCalls(outcome) ==
    {StarRepo("vansh-potpose", "ai-agents", outcome), CreateRepo("test-repo", "True", outcome),
     ToggleVisibility("your-username", "test-repo", outcome),
     DeleteRepo("your-username", "test-repo", outcome)}

(* ---------------------------- threads, frames -------------------------- *)

Threads == 1..MaxThreads

\* one frame for all threads, as a module-level variable would be
Frame_Shared(t) == 1

\* the local variables of a call live in the frame of the thread running it
Frame(t) == t

NoInstructions == [value |-> NonObj("null"), operation |-> <<>>, metadata |-> MetaAbsent]

\* payload, instructions / operation and metadata, result
EmptyFrame == [payload |-> NonePayload, instructions |-> NoInstructions,
               result |-> Started(NonePayload, LlmUnset, "unset")]

IdleThread == [pc |-> "idle", payload |-> NonePayload, llm |-> LlmUnset, api |-> "unset",
               response |-> Started(NonePayload, LlmUnset, "unset")]

(* ------------------------------- actions ------------------------------- *)

\* the agents are constructed, no request has arrived
Init ==
    /\ agent = "idle"
    /\ payload = NonePayload
    /\ stub = Unset
    /\ log = <<>>
    /\ executed = NoExecution
    /\ threads = <<>>      \* the handlers are called one after the other:
    /\ frames = <<>>       \* no server threads

\* agent_endpoint / index receive a payload for one of the two agents
NewRequest ==
    /\ agent = "idle"
    /\ \E a \in {"github", "photos"} : \E p \in Payloads(a) :
          /\ agent' = a
          /\ payload' = p
    /\ stub' = Unset
    /\ log' = <<>>
    /\ executed' = NoExecution
    /\ UNCHANGED <<threads, frames>>

\* one call of default_handler with the payload object, start to return
Serve ==
    /\ agent # "idle"
    /\ Len(log) < MaxCalls
    /\ \E llm \in LlmChoices : \E api \in ApiChoices(llm) :
          LET r == DefaultHandler(agent, payload, llm, api)
          IN  /\ log' = Append(log, r)
              /\ payload' = r.payload
              /\ stub' = [llm |-> llm, api |-> api]
    /\ UNCHANGED <<agent, executed, threads, frames>>

\* the LLM stub is replaced by one answering the same text inside json fences
FenceStub ==
    /\ agent # "idle"
    /\ log # <<>>
    /\ stub.llm.kind = "text"
    /\ stub.llm = log[1].llm
    /\ stub' = [stub EXCEPT !.llm = LlmAnswers(Fenced(stub.llm.text))]
    /\ UNCHANGED <<agent, payload, log, executed, threads, frames>>

\* the envelopes were returned; payload and results are dropped
Discard ==
    /\ agent # "idle"
    /\ log # <<>>
    /\ agent' = "idle"
    /\ payload' = NonePayload
    /\ stub' = Unset
    /\ log' = <<>>
    /\ UNCHANGED <<executed, threads, frames>>

\* the script of src/github2.py runs one of its calls while no request is served
RunScript ==
    /\ agent = "idle"
    /\ \E outcome \in ClientOutcomes : \E e \in ScriptCalls(outcome) : executed' = e
    /\ UNCHANGED <<agent, payload, stub, log, threads, frames>>

Next == NewRequest \/ Serve \/ FenceStub \/ Discard \/ RunScript

Spec == Init /\ [][Next]_vars

(* ------------------- requests served at the same time ------------------ *)

\* the requests the clients send: the payload, and what the LLM and the API
\* answer to the request
Request(p, llm, api) == [payload |-> p, llm |-> llm, api |-> api]

ConcRequests(a) ==
    IF a = "github"
    THEN {Request(Dict(Str(<<"Star", SP, "octocat/hello">>), MetaAbsent),
                  LlmAnswers(<<"{\"operation\": \"star_repository\", \"owner\": \"octocat\", \"repo\": \"hello\"}">>),
                  "ok"),
          Request(Dict(Str(<<"do", SP, "something", SP, "vague">>), MetaAbsent),
                  LlmAnswers(<<"{\"operation\": \"create_repository\"}">>), "ok"),
          Request(Dict(Str(<<"do", SP, "something", SP, "vague">>), MetaAbsent),
                  LlmAnswers(<<"{\"operation\": \"list_repositories\"}">>), "http_error"),
          Request(Dict(Str(<<"Star", SP, "octocat/hello">>), MetaAbsent),
                  LlmAnswers(<<"[\"star_repository\"]">>), "ok"),
          Request(Dict(Absent, MetaAbsent), LlmAnswers(<<"I cannot help">>), "ok"),
          Request(Dict(None, MetaAbsent), LlmRaises, "ok"),
          Request(NonePayload, LlmRaises, "ok")}
    ELSE {Request(Dict(Str(<<"list", SP, "photos">>), MetaAbsent), LlmRaises, "ok"),
          Request(Dict(Str(<<"search", SP, "images", SP, "of", SP, "Cats">>), MetaDict(Absent, Absent)),
                  LlmRaises, "ok"),
          Request(Dict(Str(<<"search", SP, "photos">>), MetaNull), LlmRaises, "ok"),
          Request(Dict(Str(<<"do", SP, "something", SP, "vague">>), MetaAbsent),
                  LlmAnswers(<<"{\"operation\": \"create album\", \"album_name\": \"trip\"}">>),
                  "http_error"),
          Request(Dict(Str(<<"do", SP, "something", SP, "vague">>), MetaAbsent),
                  LlmAnswers(<<"{\"operation\": \"search photos\", \"tag\": \"cats\"}">>), "ok_empty"),
          Request(Dict(Str(<<>>), MetaAbsent), LlmAnswers(<<"I cannot help">>), "ok"),
          Request(NonePayload, LlmRaises, "ok")}

\* the metadata the photo handler holds once the operation is resolved
PhotoResolvedMetadata(p, llm) ==
    LET lower_query == Lower(Strip(GetDefault(p, "query_text", Str(<<>>)).s))
        rule == MatcherRule(lower_query)
    IN  IF rule = "llm"
        THEN InstructionMetadata(JsonLoads(StripFences(CallGroqChat(llm).answer)).value.obj)
        ELSE MatcherResolve(p, lower_query, rule).metadata

\* what the call holds where the instructions are assigned (github.py:
\* json.loads; photos.py: operation and metadata), or that it ended before
Interpreted(a, p, llm, full) ==
    IF a = "github"
    THEN [assigned |-> full.parse = "ok", ended |-> full, payload |-> p,
          instructions |-> [NoInstructions EXCEPT !.value = full.value]]
    ELSE [assigned |-> full.instr.state = "resolved", ended |-> full, payload |-> full.payload,
          instructions |-> [value |-> full.value, operation |-> full.instr.operation,
                            metadata |-> IF full.instr.state = "resolved"
                                         THEN PhotoResolvedMetadata(p, llm) ELSE MetaAbsent]]

\* default_handler up to the instructions
ThreadInterpret(a, p, llm, api) == Interpreted(a, p, llm, DefaultHandler(a, p, llm, api))

\* default_handler from the instructions to its return
ThreadDispatch(a, p, ins, llm, api) ==
    IF a = "github"
    THEN GitHubInterpret([Started(p, llm, api) EXCEPT !.value = ins.value, !.llmCalls = 1,
                                                      !.parse = "ok"],
                         GetDefault(p, "query_text", Str(<<"No query provided">>)), api)
    ELSE PhotoDispatch([Started(p, llm, api) EXCEPT !.value = ins.value],
                       ins.operation, ins.metadata,
                       Strip(GetDefault(p, "query_text", Str(<<>>)).s), api)

\* the server is up, no request has arrived
InitConc ==
    /\ agent \in {"github", "photos"}
    /\ payload = NonePayload
    /\ stub = Unset
    /\ log = <<>>
    /\ executed = NoExecution
    /\ threads = [t \in Threads |-> IdleThread]
    /\ frames = [t \in Threads |-> EmptyFrame]

\* agent_endpoint: payload = request.get_json()
Receive(t) ==
    /\ threads[t].pc = "idle"
    /\ \E q \in ConcRequests(agent) :
          /\ threads' = [threads EXCEPT ![t] = [IdleThread EXCEPT !.pc = "received",
                                                 !.payload = q.payload, !.llm = q.llm, !.api = q.api]]
          /\ frames' = [frames EXCEPT ![Frame(t)].payload = q.payload]
    /\ UNCHANGED <<agent, payload, stub, log, executed>>

\* the instructions go into the frame, or the result of the call that ended
Assign(t, i) ==
    IF i.assigned
    THEN /\ frames' = [frames EXCEPT ![Frame(t)].payload = i.payload,
                                      ![Frame(t)].instructions = i.instructions]
         /\ threads' = [threads EXCEPT ![t].pc = "interpreted"]
    ELSE /\ frames' = [frames EXCEPT ![Frame(t)].result = i.ended]
         /\ threads' = [threads EXCEPT ![t].pc = "handled"]

\* default_handler, until instructions / operation and metadata are assigned
Interpret(t) ==
    /\ threads[t].pc = "received"
    /\ Assign(t, ThreadInterpret(agent, frames[Frame(t)].payload, threads[t].llm, threads[t].api))
    /\ UNCHANGED <<agent, payload, stub, log, executed>>

\* default_handler, from the instructions to the returned dictionary
Dispatch(t) ==
    /\ threads[t].pc = "interpreted"
    /\ frames' = [frames EXCEPT ![Frame(t)].result =
                      ThreadDispatch(agent, frames[Frame(t)].payload, frames[Frame(t)].instructions,
                                     threads[t].llm, threads[t].api)]
    /\ threads' = [threads EXCEPT ![t].pc = "handled"]
    /\ UNCHANGED <<agent, payload, stub, log, executed>>

\* agent_endpoint: return jsonify(result)
Respond(t) ==
    /\ threads[t].pc = "handled"
    /\ threads' = [threads EXCEPT ![t].pc = "responded", ![t].response = frames[Frame(t)].result]
    /\ UNCHANGED <<agent, payload, stub, log, executed, frames>>

\* the response is sent; the thread and its frame are free again
Close(t) ==
    /\ threads[t].pc = "responded"
    /\ threads' = [threads EXCEPT ![t] = IdleThread]
    /\ frames' = [frames EXCEPT ![Frame(t)] = EmptyFrame]
    /\ UNCHANGED <<agent, payload, stub, log, executed>>

NextConc ==
    \E t \in Threads : Receive(t) \/ Interpret(t) \/ Dispatch(t) \/ Respond(t) \/ Close(t)

SpecConc == InitConc /\ [][NextConc]_vars

(* --------------------- the operation catalogue ------------------------- *)

\* the operations the prompts offer the LLM and the handlers branch on
RegisteredOperations(a) ==
    IF a = "github"
    THEN {<<"create_repository">>, <<"star_repository">>, <<"unstar_repository">>,
          <<"list_repositories">>, <<"delete_repository">>, <<"get_repository_details">>,
          <<"fork_repository">>}
    ELSE {<<"list", SP, "photos">>, <<"search", SP, "photos">>, <<"create", SP, "album">>,
          <<"list", SP, "albums">>}

\* "Requires 'name'", "Requires 'owner' (string), 'repo' (string)", "(with tag)";
\* album_name has the default "New Album" and is optional
RequiredParams(a, operation) ==
    CASE a = "github" /\ operation = <<"create_repository">> -> {"name"}
      [] a = "github" /\ operation \in {<<"star_repository">>, <<"unstar_repository">>,
                                        <<"delete_repository">>, <<"get_repository_details">>,
                                        <<"fork_repository">>} -> {"owner", "repo"}
      [] a = "photos" /\ operation = <<"search", SP, "photos">> -> {"tag"}
      [] OTHER -> {}

(* ------------------------------- claims -------------------------------- *)

\* the call resolved an instruction whose operation is registered and which
\* lacks, or holds an empty value for, a required parameter of it
LacksRequired(r) ==
    /\ r.instr.state = "resolved"
    /\ r.instr.operation \in RegisteredOperations(agent)
    /\ \E k \in RequiredParams(agent, r.instr.operation) : ~Truthy(Get(r.instr.params, k))

\* the handler call failed: a non-success status code, or no response at all
SideEffectFailed(c) == c.http \in {"http_error", "network_error"}

\* the request text of the call fires one of the keyword rules
C1_KeywordText(r) ==
    /\ r.payload_in.kind = "dict"
    /\ r.payload_in.query_text.ty = "str"
    /\ LET lq == Lower(Strip(r.payload_in.query_text.s))
       IN  \/ In(<<"list", SP, "photos">>, lq) \/ In(<<"list", SP, "images">>, lq)
           \/ /\ In(<<"search">>, lq) \/ In(<<"seach">>, lq)
              /\ In(<<"photo">>, lq) \/ In(<<"image">>, lq)
           \/ In(<<"create", SP, "album">>, lq)
           \/ In(<<"list", SP, "albums">>, lq)

\* C1: a request whose text fires a keyword rule of PhotoAgent.default_handler
\* never calls call_groq_chat, whatever the LLM would have answered, and its
\* envelope does not depend on the LLM.
C1_MatcherNeverCallsLlm ==
    \A i \in DOMAIN log :
        (agent = "photos" /\ C1_KeywordText(log[i])) =>
            /\ log[i].llmCalls = 0
            /\ \A llm \in LlmStubs("photos") :
                  LET r == PhotoDefaultHandler(log[i].payload_in, llm, log[i].api)
                  IN  r.llmCalls = 0 /\ r.env = log[i].env

C1_Witness ==
    \E i \in DOMAIN log :
        /\ agent = "photos" /\ C1_KeywordText(log[i])
        /\ log[i].outcome = "returned" /\ log[i].handlers # <<>> /\ log[i].llmCalls = 0

\* C2 (as claimed): a resolved instruction of the GitHub agent with a
\* registered operation that lacks a required parameter is answered with an
\* envelope of status 400.
C2_MissingParamYields400 ==
    \A i \in DOMAIN log :
        (agent = "github" /\ LacksRequired(log[i])) =>
            /\ log[i].outcome = "returned"
            /\ "status" \in log[i].env.keys /\ log[i].env.status = 400

\* C3: when the resolved instruction lacks a required parameter of its
\* operation, no handler is invoked before the call returns.
C3_NoHandlerWithoutRequired ==
    \A i \in DOMAIN log : LacksRequired(log[i]) => log[i].handlers = <<>>

C3_Witness ==
    \E i \in DOMAIN log : LacksRequired(log[i]) /\ log[i].outcome = "returned"

\* C4 (as claimed): when the side effect of a handler fails the envelope has
\* a status other than 200 and a text; status 200 only after success.
C4_FailedSideEffectNeverSuccess ==
    \A i \in DOMAIN log :
        (\E k \in DOMAIN log[i].handlers : SideEffectFailed(log[i].handlers[k])) =>
            /\ log[i].outcome = "returned"
            /\ log[i].env.status # 200
            /\ log[i].env.response_text # <<>>

\* C5 (as claimed): an LLM answer that is not well-formed JSON after fence
\* stripping ends the request with an envelope of status 400, no handler.
C5_NonJsonYields400 ==
    \A i \in DOMAIN log :
        log[i].parse = "error" =>
            /\ log[i].outcome = "returned"
            /\ "status" \in log[i].env.keys /\ log[i].env.status = 400
            /\ log[i].handlers = <<>>

\* the parsed value is a JSON object with a string-valued "operation"
HasStringOperation(value) == value.kind = "object" /\ value.obj["operation"].ty = "str"

\* C6 (as claimed): in the GitHub agent well-formed JSON that is no object
\* with a string-valued operation ends in an envelope of status 400; nothing
\* propagates out of the handler and no handler is invoked.
C6_WrongShapeYields400 ==
    \A i \in DOMAIN log :
        (agent = "github" /\ log[i].parse = "ok" /\ ~HasStringOperation(log[i].value)) =>
            /\ log[i].outcome = "returned"
            /\ "status" \in log[i].env.keys /\ log[i].env.status = 400
            /\ log[i].handlers = <<>>

\* C7 (as claimed): an operation name that is not registered ends the request
\* with an envelope of status 400 and no handler is invoked.
C7_UnknownOperationYields400 ==
    \A i \in DOMAIN log :
        (log[i].instr.state = "resolved"
            /\ log[i].instr.operation \notin RegisteredOperations(agent)) =>
            /\ log[i].outcome = "returned"
            /\ "status" \in log[i].env.keys /\ log[i].env.status = 400
            /\ log[i].handlers = <<>>

\* what json.loads made of the answer: the instructions, or the failure
Parsed(r) == <<r.parse, r.value>>

\* call j was answered with the answer of call i inside json fences
FencedPair(i, j) ==
    /\ log[i].llm.kind = "text" /\ log[j].llm.kind = "text"
    /\ log[i].llmCalls = 1 /\ log[j].llmCalls = 1
    /\ log[j].llm.text = Fenced(log[i].llm.text)

\* the text given to json.loads is the answer less at most one opening and
\* at most one closing fence
StrippedAtMostOnce(r) ==
    LET answer == Strip(r.llm.text)
    IN  \E a \in {0, 1} : \E k \in {0, 1} :
            /\ a = 1 => StartsWith(answer, <<TICKS, JSONWORD>>)
            /\ k = 1 => EndsWith(answer, <<TICKS>>)
            /\ r.loaded = SubSeq(answer, 1 + 2 * a, Len(answer) - k)

\* C8 (as claimed): for every body b the fenced answer parses as b does,
\* and each fence is stripped at most once.
C8_FenceRoundTrip ==
    /\ \A i \in DOMAIN log : \A j \in DOMAIN log :
          FencedPair(i, j) => Parsed(log[j]) = Parsed(log[i])
    /\ \A i \in DOMAIN log : log[i].parse # "none" => StrippedAtMostOnce(log[i])

\* the body, trimmed, neither begins with the opening fence nor ends with
\* the closing fence, and only JSON whitespace surrounds it
PlainBody(b) ==
    /\ ~StartsWith(Strip(b), <<TICKS, JSONWORD>>)
    /\ ~EndsWith(Strip(b), <<TICKS>>)
    /\ TrimSet(b, JsonWhitespace) = Strip(b)

\* C8 (amended): for every body b that carries no fence of its own and is
\* surrounded by JSON whitespace only, the fenced answer parses as b does;
\* each fence is stripped at most once.
C8_FenceRoundTripPlain ==
    /\ \A i \in DOMAIN log : \A j \in DOMAIN log :
          (FencedPair(i, j) /\ PlainBody(log[i].llm.text)) => Parsed(log[j]) = Parsed(log[i])
    /\ \A i \in DOMAIN log : log[i].parse # "none" => StrippedAtMostOnce(log[i])

C8_Witness ==
    \E i \in DOMAIN log : \E j \in DOMAIN log :
        /\ FencedPair(i, j) /\ PlainBody(log[i].llm.text)
        /\ log[i].parse = "ok" /\ log[j].parse = "ok"
        /\ log[j].loaded # Strip(log[j].llm.text)

\* the two calls were served by the same deterministic stubs (a stub that
\* was not consulted agrees with any)
SameStubs(r1, r2) ==
    /\ r1.llm = r2.llm \/ r1.llm.kind = "unset" \/ r2.llm.kind = "unset"
    /\ r1.api = r2.api \/ r1.api = "unset" \/ r2.api = "unset"

\* C9: two calls of default_handler in sequence with the same payload object
\* and the same deterministic stubs return identical envelopes.
C9_SecondCallSameEnvelope ==
    \A i \in DOMAIN log : \A j \in DOMAIN log :
        SameStubs(log[i], log[j]) =>
            /\ log[i].outcome = log[j].outcome
            /\ log[i].exc = log[j].exc
            /\ log[i].env = log[j].env

C9_Witness ==
    \E i \in DOMAIN log : \E j \in DOMAIN log :
        /\ i < j /\ SameStubs(log[i], log[j])
        /\ log[i].payload_in # log[j].payload_in
        /\ log[j].outcome = "returned" /\ log[j].handlers # <<>>

\* the LLM client raised, or its answer was not well-formed JSON
LlmFailedOrMalformed(r) == (r.llm.kind = "raise" /\ r.llmCalls > 0) \/ r.parse = "error"

\* C10: a request calls the LLM at most once; after a failed LLM call or a
\* malformed answer it returns a failure envelope without a second LLM call
\* and without invoking a handler.
C10_NoRetry ==
    \A i \in DOMAIN log :
        /\ log[i].llmCalls <= 1
        /\ LlmFailedOrMalformed(log[i]) =>
              /\ log[i].llmCalls = 1
              /\ log[i].outcome = "returned"
              /\ "response_text" \in log[i].env.keys /\ log[i].env.status # 200
              /\ log[i].handlers = <<>>
        /\ (log[i].parse = "ok" /\ ~HasStringOperation(log[i].value)) => log[i].handlers = <<>>

C10_Witness ==
    \E i \in DOMAIN log :
        /\ log[i].llm.kind = "raise" /\ log[i].llmCalls = 1
        /\ log[i].outcome = "returned" /\ log[i].handlers = <<>>

\* C11 (as claimed): every envelope the entry point returns carries a response
\* text, a status in {200, 400, 500} and an echo equal to the query text of
\* the request.
C11_EnvelopeHasThreeFields ==
    \A i \in DOMAIN log :
        (log[i].outcome = "returned" /\ log[i].payload_in.query_text.ty = "str") =>
            /\ {"response_text", "status", "query_text"} \subseteq log[i].env.keys
            /\ log[i].env.status \in {200, 400, 500}
            /\ log[i].env.query_text = log[i].payload_in.query_text

\* sub occurs in s
Contains(s, sub) ==
    \E i \in 0..(Len(s) - Len(sub)) : SubSeq(s, i + 1, i + Len(sub)) = sub

\* the LLM answer of the call names star_repository with non-empty owner and repo
C12_StarRequest(r) ==
    /\ agent = "github"
    /\ r.instr.state = "resolved"
    /\ r.instr.operation = <<"star_repository">>
    /\ Truthy(Get(r.instr.params, "owner")) /\ Truthy(Get(r.instr.params, "repo"))

\* star_repository was invoked once with (o, r) and nothing else was invoked
C12_OnlyStarInvoked(r) ==
    r.handlers = <<[fn |-> "star_repository",
                    args |-> <<Get(r.instr.params, "owner"), Get(r.instr.params, "repo")>>,
                    http |-> r.api]>>

\* status 200 and a text containing "o/r"
C12_StarredEnvelope(r) ==
    /\ r.outcome = "returned"
    /\ r.env.status = 200
    /\ Contains(r.env.response_text,
                PyStr(Get(r.instr.params, "owner")) \o <<"/">> \o PyStr(Get(r.instr.params, "repo")))

\* C12 (as claimed): for every LLM answer naming star_repository with
\* non-empty owner o and repo r the star_repository handler is invoked once
\* with (o, r), no other handler is invoked, and the envelope has status 200
\* and a text containing "o/r".
C12_StarAlways200 ==
    \A i \in DOMAIN log :
        C12_StarRequest(log[i]) => C12_OnlyStarInvoked(log[i]) /\ C12_StarredEnvelope(log[i])

\* C12 (amended): the handler is invoked once with (o, r) and no other is;
\* the envelope has status 200 and a text containing "o/r" unless the handler
\* raised, and status 500 if it did.
C12_StarOnce200UnlessRaised ==
    \A i \in DOMAIN log :
        C12_StarRequest(log[i]) =>
            /\ C12_OnlyStarInvoked(log[i])
            /\ log[i].api # "network_error" => C12_StarredEnvelope(log[i])
            /\ log[i].api = "network_error" =>
                  log[i].outcome = "returned" /\ log[i].env.status = 500

C12_Witness ==
    \E i \in DOMAIN log :
        /\ C12_StarRequest(log[i]) /\ log[i].api = "ok"
        /\ Len(log[i].handlers) = 1 /\ log[i].env.status = 200

\* the handler call ended in an exception (requests raising, or a response
\* without the fields get_repository_details reads)
HandlerRaised(c) ==
    c.http = "network_error" \/ (c.fn = "get_repository_details" /\ c.http = "ok_empty")

\* C13 (as claimed): an exception raised by a handler during dispatch becomes
\* an envelope of status 500 whose text includes the failure message, in
\* GitHubAgent.default_handler and in execute_action; it never propagates.
C13_HandlerFailureYields500 ==
    /\ \A i \in DOMAIN log :
          (agent = "github" /\ \E k \in DOMAIN log[i].handlers : HandlerRaised(log[i].handlers[k])) =>
              /\ log[i].outcome = "returned"
              /\ log[i].env.status = 500
              /\ Contains(log[i].env.response_text, <<"exception of the handler">>)
    /\ executed.raised =>
          /\ ~executed.propagated
          /\ executed.result.kind = "envelope"
          /\ executed.result.status = 500

\* the rules in their priority order, and the condition of the n-th
C14_Priority == <<"list photos", "search photos", "create album", "list albums">>

C14_Fires(n, lq) ==
    CASE n = 1 -> In(<<"list", SP, "photos">>, lq) \/ In(<<"list", SP, "images">>, lq)
      [] n = 2 -> /\ In(<<"search">>, lq) \/ In(<<"seach">>, lq)
                  /\ In(<<"photo">>, lq) \/ In(<<"image">>, lq)
      [] n = 3 -> In(<<"create", SP, "album">>, lq)
      [] n = 4 -> In(<<"list", SP, "albums">>, lq)

C14_Firing(lq) == {n \in 1..4 : C14_Fires(n, lq)}

\* the function that serves the operation of the n-th rule
C14_HandlerOf(n) ==
    <<"list_photos", "search_photos_by_tag_parameter", "create_album", "list_albums">>[n]

\* "list photos" as the text of the operation
C14_OperationOf(n) ==
    <<  <<"list", SP, "photos">>, <<"search", SP, "photos">>,
        <<"create", SP, "album">>, <<"list", SP, "albums">>  >>[n]

C14_LowerQuery(r) == Lower(Strip(r.payload_in.query_text.s))

\* C14: when the text of a photo request fires one or more keyword rules, the
\* operation resolved is that of the first firing rule in the order list
\* photos, search photos, create album, list albums; it is the only one, and
\* no handler of another operation is invoked.
C14_FirstMatchWins ==
    \A i \in DOMAIN log :
        (/\ agent = "photos"
         /\ log[i].payload_in.kind = "dict"
         /\ log[i].payload_in.query_text.ty = "str"
         /\ C14_Firing(C14_LowerQuery(log[i])) # {}) =>
            LET first == SetMin(C14_Firing(C14_LowerQuery(log[i])))
            IN  /\ log[i].outcome = "returned"
                /\ log[i].instr.state = "resolved" =>
                      log[i].instr.operation = C14_OperationOf(first)
                /\ log[i].llmCalls = 0
                /\ Len(log[i].handlers) <= 1
                /\ \A k \in DOMAIN log[i].handlers : log[i].handlers[k].fn = C14_HandlerOf(first)

C14_Witness ==
    \E i \in DOMAIN log :
        /\ agent = "photos" /\ C1_KeywordText(log[i])
        /\ Cardinality(C14_Firing(C14_LowerQuery(log[i]))) >= 2
        /\ {1, 3} \subseteq C14_Firing(C14_LowerQuery(log[i]))
        /\ log[i].instr.state = "resolved"
        /\ Len(log[i].handlers) = 1 /\ log[i].handlers[1].fn = "list_photos"

\* the search rule is the first rule the text of the photo request fires
C15_SearchFires(r) ==
    /\ agent = "photos"
    /\ C1_KeywordText(r)
    /\ SetMin(C14_Firing(C14_LowerQuery(r))) = 2

\* the payload's metadata holds no tag (or the payload holds no metadata)
C15_NoTagSupplied(r) == ~Truthy(r.payload_in.metadata.tag)

\* the text of the request after the last "search images of ", trimmed
C15_Following(r) ==
    LET q == Strip(r.payload_in.query_text.s)
        at == {i \in 1..Len(q) : MatchAt(TagPhrase, Lower(q), i)}
    IN  Strip(SubSeq(q, SetMax(at) + Len(TagPhrase), Len(q)))

\* C15 (as claimed): when the search rule fires on a text containing "search
\* images of " and no tag was supplied, the search handler is called with the
\* text following the phrase, trimmed; when the rule fires and no tag can be
\* obtained, the handler is not called and the response asks for a tag.
C15_TagAfterPhrase ==
    \A i \in DOMAIN log :
        (C15_SearchFires(log[i]) /\ C15_NoTagSupplied(log[i])) =>
            IF In(TagPhrase, C14_LowerQuery(log[i]))
            THEN log[i].handlers = <<[fn |-> "search_photos_by_tag_parameter",
                                      args |-> <<Str(C15_Following(log[i]))>>,
                                      http |-> log[i].api]>>
            ELSE /\ log[i].handlers = <<>>
                 /\ log[i].outcome = "returned"
                 /\ log[i].env.response_text = <<"Please provide a tag for searching.">>

\* the two operation names differ at most in letter case and surrounding whitespace
C16_SameName(a, b) == a.ty = "str" /\ b.ty = "str" /\ Lower(Strip(a.s)) = Lower(Strip(b.s))

\* the two instructions agree on every key but the operation
C16_SameParams(v, w) == \A k \in Keys \ {"operation"} : v.obj[k] = w.obj[k]

\* the functions the call invoked
C16_Invoked(r) == {r.handlers[k].fn : k \in DOMAIN r.handlers}

\* the JSON objects with a string for operation, and that name lowercased
\* and trimmed
C16_NamedDocs ==
    [d \in {e \in DOMAIN JsonDocs :
                JsonDocs[e].kind = "object" /\ JsonDocs[e].obj["operation"].ty = "str"}
        |-> Lower(Strip(JsonDocs[d].obj["operation"].s))]

\* the LLM answers that are one JSON object naming the operation of the call
\* in another letter case or with other whitespace around it
C16_Renamings(r) ==
    LET name == Lower(Strip(r.value.obj["operation"].s))
    IN  {LlmAnswers(<<d>>) : d \in {e \in DOMAIN C16_NamedDocs :
            C16_NamedDocs[e] = name /\ JsonDocs[e].obj["operation"] # r.value.obj["operation"]}}

\* C16: LLM instructions whose operation names differ only in letter case or
\* surrounding whitespace take the same branch and invoke the same handler
\* (with equal parameters: the same calls and the same envelope); a string
\* "true"/"false" in any letter case for add_readme reaches create_repository
\* as the boolean.
C16_Normalisation ==
    \A i \in DOMAIN log :
        /\ (log[i].parse = "ok" /\ log[i].instr.state = "resolved") =>
              \A llm \in C16_Renamings(log[i]) :
                  LET r == DefaultHandler(agent, log[i].payload_in, llm, log[i].api)
                  IN  (r.parse = "ok" /\ r.value.kind = "object"
                          /\ C16_SameName(r.value.obj["operation"], log[i].value.obj["operation"])) =>
                          /\ r.instr.operation = log[i].instr.operation
                          /\ Cardinality(C16_Invoked(r) \cup C16_Invoked(log[i])) <= 1
                          /\ C16_SameParams(r.value, log[i].value) =>
                                r.handlers = log[i].handlers /\ r.env = log[i].env
        /\ \A k \in DOMAIN log[i].handlers :
              LET a == log[i].instr.params["add_readme"]
              IN  (log[i].handlers[k].fn = "create_repository" /\ a.ty = "str"
                      /\ Lower(a.s) \in {<<"true">>, <<"false">>}) =>
                      log[i].handlers[k].args[4] = Bool(Lower(a.s) = <<"true">>)

C16_Witness ==
    \E i \in DOMAIN log :
        /\ log[i].parse = "ok" /\ log[i].instr.state = "resolved"
        /\ log[i].value.obj["operation"].s # log[i].instr.operation
        /\ log[i].instr.params["add_readme"] = Str(<<"True">>)
        /\ Len(log[i].handlers) = 1
        /\ log[i].handlers[1].fn = "create_repository"
        /\ log[i].handlers[1].args[4] = Bool(TRUE)

\* C18 (as claimed): a request whose payload is null, or whose query_text the
\* handler cannot use, still ends with an envelope being returned.
C18_BadPayloadStillReturns ==
    \A i \in DOMAIN log :
        (log[i].payload_in.kind # "dict"
            \/ (agent = "photos" /\ log[i].payload_in.query_text.ty \notin {"str", "absent"})) =>
            log[i].outcome = "returned"

\* what the client of thread t would get were its request served alone
C17_Alone(t) == DefaultHandler(agent, threads[t].payload, threads[t].llm, threads[t].api)

C17_SameAnswer(r1, r2) ==
    /\ r1.outcome = r2.outcome
    /\ r1.exc = r2.exc
    /\ r1.env = r2.env
    /\ r1.handlers = r2.handlers

C17_EachAsAlone ==
    \A t \in Threads :
        threads[t].pc = "responded" => C17_SameAnswer(threads[t].response, C17_Alone(t))

\* C17: with several requests served at the same time by one agent, under
\* every interleaving of their steps each response (envelope or exception,
\* and the handler calls made for it) is the one the request gets when it is
\* served alone; no step writes the agent the requests share.
C17_ServedAsAlone == [](C17_EachAsAlone) /\ [][agent' = agent]_vars

\* a response went out while another request, not the same, was in the
\* middle of its handler
C17_Witness ==
    \E t \in Threads : \E u \in Threads :
        /\ t # u
        /\ threads[t].pc = "responded" /\ threads[t].response.outcome = "returned"
        /\ threads[t].response.handlers # <<>>
        /\ threads[u].pc = "interpreted"
        /\ ~C17_SameAnswer(C17_Alone(t), C17_Alone(u))
====
